---- MODULE Spec2Model ----
(***************************************************************************)
(* Model of src/scaler-fixed-protein.js: the three-stage recipe scaler     *)
(* (protein stage, calorie stage, finalization nudge) and its helpers.     *)
(*                                                                         *)
(* JavaScript numbers are modelled as IEEE-754 binary64 values, every      *)
(* operation correctly rounded (round to nearest, ties to even).  A number *)
(* is <<c, e, m3, m2, m1, m0>>:                                            *)
(*   c = 1, -1 : the finite number c * M * 2^e, M odd and below 2^53,      *)
(*               M = m3*2^42 + m2*2^28 + m1*2^14 + m0                      *)
(*   c = 0     : zero;  c = 2, -2 : +Infinity, -Infinity;  c = 3 : NaN     *)
(*   c = 4     : undefined (an absent field);  c = 5 : null                *)
(* A finite nonzero number lies between 2^-1074 and 2^1024: a result of    *)
(* 2^1024 or more is an infinity, a result below 2^-1022 is rounded to a   *)
(* multiple of 2^-1074 (gradual underflow).  null converts to 0 and        *)
(* undefined to NaN wherever a number is expected (ToNumber).              *)
(* Strings are TLA+ strings; a regular expression that is an alternation   *)
(* of literals is the set of its literals.                                 *)
(***************************************************************************)
EXTENDS Integers, Sequences, FiniteSets, TLC

VARIABLES
    pc,             \* position in scaleRecipeForPaths_FixedProtein / the rounder probe
    rawList,        \* the caller's ingredient list (baseIngredients)
    proteinTarget,  \* perMealProteinTarget
    calorieTarget,  \* perMealCalorieTarget
    indexed,        \* rawList with _idx attached
    step1,          \* result of scaleProteinToTarget
    step2,          \* result of scaleCarbFatToCalories
    fin,            \* result of finalizeRecipe: [ingredients, totals]
    rUnit,          \* rounder probe: unit argument of roundAmount
    rValue,         \* rounder probe: value argument of roundAmount
    rResult         \* rounder probe: value returned by roundAmount

vars == <<pc, rawList, proteinTarget, calorieTarget, indexed, step1, step2, fin,
          rUnit, rValue, rResult>>

(***************************************************************************)
(* JavaScript numbers                                                      *)
(***************************************************************************)
\* the element of a one-element set.  An operator below that uses an operand more than
\* once first binds the operand's value, as in {f(a) : a \in {x}}: an operand is
\* evaluated once, before the operation.
Only(S) == CHOOSE r \in S : TRUE

\* --- integers of up to 112 bits as tuples of base-B digits, least digit first ---
B == 16384
P2 == <<1, 2, 4, 8, 16, 32, 64, 128, 256, 512, 1024, 2048, 4096, 8192, 16384>>
Pow2(r) == P2[r + 1]

\* the number of bits of a digit, and the number of its trailing zero bits
BitLen(x) == IF x = 0 THEN 0 ELSE CHOOSE k \in 1..14 : Pow2(k - 1) <= x /\ x < Pow2(k)
LowZeros(x) == CHOOSE k \in 0..13 : x % Pow2(k) = 0 /\ x % Pow2(k + 1) # 0

limb(N, i) == IF i >= 1 /\ i <= Len(N) THEN N[i] ELSE 0

BigTop(N) == IF \E i \in 1..Len(N) : N[i] # 0
             THEN CHOOSE i \in 1..Len(N) : N[i] # 0 /\ \A j \in (i + 1)..Len(N) : N[j] = 0
             ELSE 0
\* the number of bits of N, and the number of trailing zero bits of a nonzero N
BigLen(N) == Only({IF t = 0 THEN 0 ELSE 14 * (t - 1) + BitLen(N[t]) : t \in {BigTop(N)}})
BigLow(N) ==
    Only({14 * (i - 1) + LowZeros(N[i]) :
             i \in {CHOOSE i \in 1..Len(N) : N[i] # 0 /\ \A j \in 1..(i - 1) : N[j] = 0}})

ShrLimb(N, j, q, r) ==
    (limb(N, j + q) \div Pow2(r)) + (limb(N, j + q + 1) % Pow2(r)) * Pow2(14 - r)
\* the four low digits of N shifted right by k bits
Shr4(N, k) ==
    Only({<<ShrLimb(N, 1, q, r), ShrLimb(N, 2, q, r), ShrLimb(N, 3, q, r), ShrLimb(N, 4, q, r)>> :
             q \in {k \div 14}, r \in {k % 14}})

ShlLimb(M, j, q, r) ==
    ((limb(M, j - q) * Pow2(r)) % B) + (limb(M, j - q - 1) \div Pow2(14 - r))
\* the four-digit M shifted left by d bits, as eight digits
Shl8(M, d) ==
    Only({<<ShlLimb(m, 1, q, r), ShlLimb(m, 2, q, r), ShlLimb(m, 3, q, r), ShlLimb(m, 4, q, r),
            ShlLimb(m, 5, q, r), ShlLimb(m, 6, q, r), ShlLimb(m, 7, q, r), ShlLimb(m, 8, q, r)>> :
             m \in {M}, q \in {d \div 14}, r \in {d % 14}})

\* the k low bits of N are zero; bit j of N
LowBitsZero(N, k) ==
    /\ \A i \in 1..(k \div 14) : limb(N, i) = 0
    /\ limb(N, k \div 14 + 1) % Pow2(k % 14) = 0
BitAt(N, j) == (limb(N, j \div 14 + 1) \div Pow2(j % 14)) % 2

Low4(N) == Only({<<n[1], n[2], n[3], n[4]>> : n \in {N}})
Ext8(M) == Only({<<m[1], m[2], m[3], m[4], 0, 0, 0, 0>> : m \in {M}})
Zero4 == <<0, 0, 0, 0>>

Inc4(Q) ==
    IF Q[1] + 1 < B THEN <<Q[1] + 1, Q[2], Q[3], Q[4]>>
    ELSE IF Q[2] + 1 < B THEN <<0, Q[2] + 1, Q[3], Q[4]>>
    ELSE IF Q[3] + 1 < B THEN <<0, 0, Q[3] + 1, Q[4]>>
    ELSE <<0, 0, 0, Q[4] + 1>>

\* the digits of the number whose columns i.. are c[i].., each column taking the carry
\* (or the borrow) of the column below; the top column keeps its sign
RECURSIVE Carry(_, _, _)
Carry(c, i, carry) ==
    IF i = Len(c) THEN <<c[i] + carry>>
    ELSE Only({<<t % B>> \o Carry(c, i + 1, t \div B) : t \in {c[i] + carry}})

\* the product of two four-digit numbers, as eight digits
Mul8(a, b) ==
    Carry(<<a[1] * b[1],
            a[1] * b[2] + a[2] * b[1],
            a[1] * b[3] + a[2] * b[2] + a[3] * b[1],
            a[1] * b[4] + a[2] * b[3] + a[3] * b[2] + a[4] * b[1],
            a[2] * b[4] + a[3] * b[3] + a[4] * b[2],
            a[3] * b[4] + a[4] * b[3],
            a[4] * b[4],
            0>>, 1, 0)

\* the order of two eight-digit numbers: -1, 0 or 1
BigCmp(a, b) ==
    IF a = b THEN 0
    ELSE Only({IF a[i] < b[i] THEN -1 ELSE 1 :
                  i \in {CHOOSE i \in 1..8 : a[i] # b[i] /\ \A j \in (i + 1)..8 : a[j] = b[j]}})

BigAdd(a, b) ==
    Carry(<<a[1] + b[1], a[2] + b[2], a[3] + b[3], a[4] + b[4],
            a[5] + b[5], a[6] + b[6], a[7] + b[7], a[8] + b[8]>>, 1, 0)

\* a - b for a >= b
BigSub(a, b) ==
    Carry(<<a[1] - b[1], a[2] - b[2], a[3] - b[3], a[4] - b[4],
            a[5] - b[5], a[6] - b[6], a[7] - b[7], a[8] - b[8]>>, 1, 0)

\* --- IEEE-754 binary64 values ---
\* the finite number s * V * 2^e for a nonzero V below 2^56, with an odd significand
Canon(s, V, e) ==
    Only({Only({<<s, e + tz, W[4], W[3], W[2], W[1]>> : W \in {Shr4(V, tz)}}) :
             tz \in {BigLow(V)}})

\* the exponent of the last place of the smallest numbers, and the bound 2^EMax of
\* the finite numbers
EMin == -1074
EMax == 1024

\* s * n * 2^e with the k low bits of n rounded away, a tie going to the even
\* significand; sticky: the exact value has a nonzero part below n
RoundOff(s, n, e, sticky, k) ==
    Only({LET half == BitAt(n, k - 1) = 1
              rest == sticky \/ ~LowBitsZero(n, k - 1)
              up   == half /\ (rest \/ Q[1] % 2 = 1)
          IN  IF up THEN Canon(s, Inc4(Q), e + k)
              ELSE IF Q = <<0, 0, 0, 0>> THEN <<0, 0, 0, 0, 0, 0>>
              ELSE Canon(s, Q, e + k) : Q \in {Shr4(n, k)}})

\* the number of low bits that s * N * 2^e loses: those beyond 53 significant bits
\* and those below 2^EMin
LostBits(L, e) == IF L - 53 > EMin - e THEN L - 53 ELSE EMin - e

\* a rounded result of 2^EMax or more is an infinity
Overflow(x) ==
    Only({IF r[1] \in {-1, 1} /\ r[2] > EMax - 54 /\ r[2] + BigLen(<<r[6], r[5], r[4], r[3]>>) > EMax
          THEN <<2 * r[1], 0, 0, 0, 0, 0>>
          ELSE r : r \in {x}})

\* s * N * 2^e rounded to the nearest number
RoundBig(s, N, e, sticky) ==
    Only({Overflow(IF k <= 0 THEN Canon(s, n, e) ELSE RoundOff(s, n, e, sticky, k)) :
             n \in {N}, k \in {LostBits(BigLen(N), e)}})

Zero == <<0, 0, 0, 0, 0, 0>>
NaN == <<3, 0, 0, 0, 0, 0>>
PInf == <<2, 0, 0, 0, 0, 0>>
NInf == <<-2, 0, 0, 0, 0, 0>>
Undefined == <<4, 0, 0, 0, 0, 0>>
Null == <<5, 0, 0, 0, 0, 0>>

\* the significand of a finite number, least digit first
Mant(x) == <<x[6], x[5], x[4], x[3]>>
\* the position above the highest bit of a finite nonzero number
TopBit(x) == x[2] + BigLen(Mant(x))

\* the integer n as a number
R(n) ==
    IF n = 0 THEN Zero
    ELSE Only({Canon(IF n < 0 THEN -1 ELSE 1, <<a % B, (a \div B) % B, a \div (B * B), 0>>, 0) :
                  a \in {IF n < 0 THEN -n ELSE n}})
One == R(1)

\* the conversion of an operand to a number: null is 0, undefined is NaN
ToNumber(x) == Only({IF a[1] = 5 THEN Zero ELSE IF a[1] = 4 THEN NaN ELSE a : a \in {x}})

\* the global isFinite, which converts its argument
isFinite(x) == ToNumber(x)[1] \in {-1, 0, 1}
IsInf(x) == x[1] \in {-2, 2}
IsNaN(x) == x[1] = 3

\* x || 0 (NaN, undefined, null and 0 are falsy)
OrZero(x) == Only({IF a[1] \in {0, 3, 4, 5} THEN Zero ELSE a : a \in {x}})
\* truthiness of a number
Truthy(x) == x[1] \notin {0, 3, 4, 5}

Neg(x) == Only({IF IsNaN(a) THEN NaN ELSE <<-a[1], a[2], a[3], a[4], a[5], a[6]>> : a \in {ToNumber(x)}})

\* |x| compared with |y| for finite nonzero x, y: -1, 0 or 1
CmpMag(x, y) ==
    Only({IF tx # ty THEN (IF tx < ty THEN -1 ELSE 1)
          ELSE BigCmp(Shl8(Mant(x), x[2] - e), Shl8(Mant(y), y[2] - e)) :
             tx \in {TopBit(x)}, ty \in {TopBit(y)}, e \in {IF x[2] < y[2] THEN x[2] ELSE y[2]}})

\* X + Y (the signs s and t equal) or X - Y, for X = |x| / 2^e and Y = |y| / 2^e,
\* correctly rounded; s and t are the signs of x and y
AddAligned(s, X, t, Y, e) ==
    IF s = t THEN RoundBig(s, BigAdd(X, Y), e, FALSE)
    ELSE Only({IF c = 0 THEN Zero
               ELSE IF c > 0 THEN RoundBig(s, BigSub(X, Y), e, FALSE)
               ELSE RoundBig(t, BigSub(Y, X), e, FALSE) : c \in {BigCmp(X, Y)}})

\* x + y correctly rounded, for finite nonzero x, y; an operand below a quarter of the
\* other's last place is lost
AddMag(x, y) ==
    Only({IF tx > ty + 56 THEN x
          ELSE IF ty > tx + 56 THEN y
          ELSE Only({AddAligned(x[1], X, y[1], Y, e) :
                        X \in {Shl8(Mant(x), x[2] - e)}, Y \in {Shl8(Mant(y), y[2] - e)}}) :
             tx \in {TopBit(x)}, ty \in {TopBit(y)}, e \in {IF x[2] < y[2] THEN x[2] ELSE y[2]}})

\* the arithmetic below converts its operands (ToNumber); zero has no sign
Add(x, y) ==
    Only({IF isFinite(a) /\ isFinite(b)
          THEN IF a[1] = 0 THEN b
               ELSE IF b[1] = 0 THEN a
               ELSE AddMag(a, b)
          ELSE IF IsNaN(a) \/ IsNaN(b) THEN NaN
          ELSE IF IsInf(a) /\ IsInf(b) THEN (IF a = b THEN a ELSE NaN)
          ELSE IF IsInf(a) THEN a
          ELSE b : a \in {ToNumber(x)}, b \in {ToNumber(y)}})

Sub(x, y) == Add(x, Neg(y))

Mul(x, y) ==
    Only({IF isFinite(a) /\ isFinite(b)
          THEN IF a[1] = 0 \/ b[1] = 0 THEN Zero
               ELSE RoundBig(a[1] * b[1], Mul8(Mant(a), Mant(b)), a[2] + b[2], FALSE)
          ELSE IF IsNaN(a) \/ IsNaN(b) \/ a[1] = 0 \/ b[1] = 0 THEN NaN
          ELSE <<(IF (a[1] > 0) = (b[1] > 0) THEN 2 ELSE -2), 0, 0, 0, 0, 0>> :
             a \in {ToNumber(x)}, b \in {ToNumber(y)}})

\* Rm * B - q * D for four-digit Rm < D: four digits and, fifth, the sign of the result
SubMul(Rm, D, q) ==
    Carry(<<0 - q * D[1], Rm[1] - q * D[2], Rm[2] - q * D[3], Rm[3] - q * D[4], Rm[4]>>, 1, 0)

\* one digit of the long division by a D of 56 bits: <<digit, remainder>>.  The estimate
\* qh is taken from the two top digits of the remainder and the top digit of D; the
\* digit is the largest q with q * D <= Rm * B, at most two below the estimate
DivDigit(Rm, D, qh) ==
    Only({IF t0[5] >= 0 THEN <<qh, Low4(t0)>>
          ELSE Only({IF t1[5] >= 0 THEN <<qh - 1, Low4(t1)>>
                     ELSE <<qh - 2, Low4(SubMul(Rm, D, qh - 2))>> :
                        t1 \in {SubMul(Rm, D, qh - 1)}}) :
             t0 \in {SubMul(Rm, D, qh)}})

DivStep(Rm, D) ==
    Only({DivDigit(r, D, IF est > B - 1 THEN B - 1 ELSE est) :
             r \in {Rm}, est \in {(Rm[4] * B + Rm[3]) \div D[4]}})

\* the five quotient digits and the remainder of N * B^4 / D for N, D of 56 bits
DivDigits(N, D) ==
    Only({LET s3 == DivStep(R0, D)
              s2 == DivStep(s3[2], D)
              s1 == DivStep(s2[2], D)
              s0 == DivStep(s1[2], D)
          IN  <<s0[1], s1[1], s2[1], s3[1], q4, s0[2]>> :
             q4 \in {IF BigCmp(Ext8(N), Ext8(D)) >= 0 THEN 1 ELSE 0},
             R0 \in {IF BigCmp(Ext8(N), Ext8(D)) >= 0 THEN Low4(BigSub(Ext8(N), Ext8(D))) ELSE N}})

\* x / y correctly rounded, for finite nonzero x, y: both significands are brought to
\* 56 bits and 56 or 57 bits of the quotient are computed
DivMag(x, y) ==
    IF Mant(y) = <<1, 0, 0, 0>>
    THEN IF x[2] - y[2] >= EMin /\ x[2] - y[2] <= EMax - 54
         THEN <<x[1] * y[1], x[2] - y[2], x[3], x[4], x[5], x[6]>>
         ELSE RoundBig(x[1] * y[1], Ext8(Mant(x)), x[2] - y[2], FALSE)
    ELSE Only({Only({RoundBig(x[1] * y[1], <<Q[1], Q[2], Q[3], Q[4], Q[5], 0, 0, 0>>,
                              x[2] - y[2] + Lx - Ly - 56, Q[6] # Zero4) :
                        Q \in {DivDigits(Low4(Shl8(Mant(x), 56 - Lx)),
                                         Low4(Shl8(Mant(y), 56 - Ly)))}}) :
                  Lx \in {BigLen(Mant(x))}, Ly \in {BigLen(Mant(y))}})

Div(x, y) ==
    Only({IF isFinite(a) /\ isFinite(b) /\ b[1] # 0
          THEN IF a[1] = 0 THEN Zero ELSE DivMag(a, b)
          ELSE IF IsNaN(a) \/ IsNaN(b) THEN NaN
          ELSE IF IsInf(a) /\ IsInf(b) THEN NaN
          ELSE IF IsInf(a) THEN (IF b[1] < 0 THEN Neg(a) ELSE a)
          ELSE IF IsInf(b) THEN Zero
          ELSE IF a[1] = 0 THEN NaN
          ELSE <<2 * a[1], 0, 0, 0, 0, 0>> : a \in {ToNumber(x)}, b \in {ToNumber(y)}})

\* the number nearest to n/d: the value of the literal n/d and of a decimal literal
Rat(n, d) == Div(R(n), R(d))

\* x < y; any comparison with NaN is false
Lt(x, y) ==
    Only({IF isFinite(a) /\ isFinite(b)
          THEN IF a[1] # b[1] THEN a[1] < b[1]
               ELSE IF a[1] = 0 THEN FALSE
               ELSE IF a[1] > 0 THEN CmpMag(a, b) < 0
               ELSE CmpMag(a, b) > 0
          ELSE /\ ~IsNaN(a)
               /\ ~IsNaN(b)
               /\ a # b
               /\ IF IsInf(a) THEN a = NInf ELSE b = PInf : a \in {ToNumber(x)}, b \in {ToNumber(y)}})

Leq(x, y) == Only({~IsNaN(a) /\ ~IsNaN(b) /\ (a = b \/ Lt(a, b)) : a \in {ToNumber(x)}, b \in {ToNumber(y)}})

MathMax(x, y) ==
    Only({IF IsNaN(a) \/ IsNaN(b) THEN NaN ELSE IF Lt(a, b) THEN b ELSE a : a \in {ToNumber(x)}, b \in {ToNumber(y)}})

MathAbs(x) ==
    Only({IF IsNaN(a) THEN NaN
          ELSE <<(IF a[1] < 0 THEN -a[1] ELSE a[1]), a[2], a[3], a[4], a[5], a[6]>> : a \in {ToNumber(x)}})

\* the integer nearest to the finite nonzero a = +-M * 2^(-k), k > 0, a half rounding up
RoundMag(a, k) ==
    Only({IF J = Zero4 THEN Zero ELSE Canon(a[1], J, 0) :
             J \in {IF BitAt(Mant(a), k - 1) = 1 /\ (a[1] > 0 \/ k >= 2)
                    THEN Inc4(Shr4(Mant(a), k)) ELSE Shr4(Mant(a), k)}})

\* Math.round: the nearest integer, a half rounding up (towards +Infinity), computed
\* on the bits of x
MathRound(x) ==
    Only({IF isFinite(a)
          THEN IF a[2] >= 0 THEN a
               ELSE IF 0 - a[2] > 54 THEN Zero
               ELSE RoundMag(a, 0 - a[2])
          ELSE IF IsNaN(a) THEN NaN
          ELSE a : a \in {ToNumber(x)}})

(***************************************************************************)
(* Strings and regular expressions                                         *)
(***************************************************************************)
\* the string s contains the literal p
Contains(s, p) == \E k \in 1..(Len(s) - Len(p) + 1) : SubSeq(s, k, k + Len(p) - 1) = p

\* re.test(s) for a regular expression that is an alternation of literals
Test(re, s) == \E p \in re : Contains(s, p)

UpperToLower ==
    [c \in {"A", "B", "C", "D", "E", "F", "G", "H", "I", "J", "K", "L", "M", "N",
            "O", "P", "Q", "R", "S", "T", "U", "V", "W", "X", "Y", "Z"} |->
        CASE c = "A" -> "a" [] c = "B" -> "b" [] c = "C" -> "c" [] c = "D" -> "d"
          [] c = "E" -> "e" [] c = "F" -> "f" [] c = "G" -> "g" [] c = "H" -> "h"
          [] c = "I" -> "i" [] c = "J" -> "j" [] c = "K" -> "k" [] c = "L" -> "l"
          [] c = "M" -> "m" [] c = "N" -> "n" [] c = "O" -> "o" [] c = "P" -> "p"
          [] c = "Q" -> "q" [] c = "R" -> "r" [] c = "S" -> "s" [] c = "T" -> "t"
          [] c = "U" -> "u" [] c = "V" -> "v" [] c = "W" -> "w" [] c = "X" -> "x"
          [] c = "Y" -> "y" [] c = "Z" -> "z"]

RECURSIVE toLowerCase(_)
toLowerCase(s) ==
    IF Len(s) = 0 THEN ""
    ELSE LET c == SubSeq(s, 1, 1)
         IN  (IF c \in DOMAIN UpperToLower THEN UpperToLower[c] ELSE c)
                 \o toLowerCase(SubSeq(s, 2, Len(s)))

\* re.test(s) for a case-insensitive (/i) alternation of lower-case literals
TestI(re, s) == Test(re, toLowerCase(s))

\* tags.some(t => re.test(t)), re case-insensitive
SomeTag(tags, re) == \E k \in 1..Len(tags) : TestI(re, tags[k])

(***************************************************************************)
(* Ingredient classifier                                                   *)
(***************************************************************************)
ProteinTagRe == {"protein", "chicken", "turkey", "shrimp", "salmon", "egg", "yogurt",
                 "cottage", "tofu", "tempeh", "edamame", "whey", "casein"}
ProteinNameRe == {"protein powder", "chicken", "turkey", "shrimp", "salmon", "egg",
                  "egg white", "yogurt", "cottage", "tofu", "tempeh", "edamame", "whey",
                  "casein"}
CarbFatTagRe == {"carb", "grain", "starch", "fat", "oil", "cheese", "nut", "seed",
                 "avocado", "tortilla", "rice", "oats", "bread", "olive"}
CarbFatNameRe == {"tortilla", "rice", "oat", "bread", "pasta", "oil", "olive", "butter",
                  "cheese", "avocado", "nut", "seed", "granola", "hummus", "bean",
                  "black bean", "quinoa", "farro", "brown rice"}
NonScalingTagRe == {"spice", "season", "herb", "zero", "free", "water", "ice", "extract"}
NonScalingNameRe == {"salt", "pepper", "cinnamon", "garlic powder", "onion powder",
                     "paprika", "cumin", "vanilla extract", "ice", "water", "zero-cal"}

\* (i.name stands for i?.name || i?.ingredient || '', i.tags for i?.tags || [])
isProtein(i) ==
    IF SomeTag(i.tags, ProteinTagRe) THEN TRUE
    ELSE Test(ProteinNameRe, toLowerCase(i.name))

isCarbFat(i) ==
    IF SomeTag(i.tags, CarbFatTagRe) THEN TRUE
    ELSE Test(CarbFatNameRe, toLowerCase(i.name))

isNonScaling(i) ==
    IF SomeTag(i.tags, NonScalingTagRe) THEN TRUE
    ELSE TestI(NonScalingNameRe, toLowerCase(i.name))

guessGPerCup(name) ==
    LET n == toLowerCase(name)
    IN  IF Test({"oat", "granola"}, n) THEN R(80)
        ELSE IF Test({"rice", "quinoa", "farro"}, n) THEN R(160)
        ELSE IF Test({"berry", "fruit", "cucumber", "tomato", "zucchini", "pepper"}, n)
             THEN R(140)
        ELSE IF Test({"yogurt", "cottage"}, n) THEN R(245)
        ELSE IF Test({"bean", "chickpea", "edamame"}, n) THEN R(170)
        ELSE IF Test({"cheese"}, n) THEN R(120)
        ELSE IF Test({"avocado"}, n) THEN R(150)
        ELSE R(240)

(***************************************************************************)
(* Totals and the quantity rounder                                         *)
(***************************************************************************)
RECURSIVE sumCalories(_)
sumCalories(arr) ==
    IF Len(arr) = 0 THEN Zero
    ELSE Add(sumCalories(SubSeq(arr, 1, Len(arr) - 1)), OrZero(arr[Len(arr)].calories_kcal))

RECURSIVE sumProtein(_)
sumProtein(arr) ==
    IF Len(arr) = 0 THEN Zero
    ELSE Add(sumProtein(SubSeq(arr, 1, Len(arr) - 1)), OrZero(arr[Len(arr)].protein_g))

computeTotals(ings) ==
    Only({[calories_kcal |-> MathRound(sumCalories(list)),
           protein_g     |-> Div(MathRound(Mul(sumProtein(list), R(2))), R(2))] :
             list \in {ings}})

frac == <<Zero, Rat(1, 8), Rat(1, 6), Rat(1, 4), Rat(1, 3), Rat(1, 2), Rat(2, 3),
          Rat(3, 4), One>>

\* the comparison with a tie going to the later candidate
closerOrTied(b, a, value) == Leq(MathAbs(Sub(b, value)), MathAbs(Sub(a, value)))
\* Math.abs(b-value) < Math.abs(a-value)
closer(b, a, value) == Lt(MathAbs(Sub(b, value)), MathAbs(Sub(a, value)))

\* frac.reduce((a,b) => Math.abs(b-value) < Math.abs(a-value) ? b : a, 0):
\* acc[k] is the accumulator a after the first k elements of frac
\* (the accumulator's value is bound to a before the comparison is evaluated)
reduceNearest(value) ==
    LET acc[k \in 0..Len(frac)] ==
            IF k = 0 THEN Zero
            ELSE Only({IF closer(frac[k], a, value) THEN frac[k] ELSE a : a \in {acc[k - 1]}})
    IN  acc[Len(frac)]

\* the grams branch, for v = Math.max(0, value)
roundGrams(v) ==
    IF Leq(v, R(20)) THEN MathRound(v)
    ELSE IF Leq(v, R(150)) THEN Mul(MathRound(Div(v, R(5))), R(5))
    ELSE Mul(MathRound(Div(v, R(10))), R(10))

roundAmount(name, unit, value) ==
    Only({IF ~isFinite(x) THEN Zero
          ELSE IF unit = "g" THEN Only({roundGrams(v) : v \in {MathMax(Zero, x)}})
          ELSE IF unit = "cups" THEN reduceNearest(x)
          ELSE x : x \in {value}})

(***************************************************************************)
(* Ingredient records and small utilities                                  *)
(***************************************************************************)
\* a number after JSON.stringify / JSON.parse: NaN and the infinities become null
JsonNum(x) == IF x = NaN \/ IsInf(x) THEN Null ELSE x

\* JSON.parse(JSON.stringify(x)) of an ingredient list
cloneDeep(x) ==
    [k \in 1..Len(x) |->
        [x[k] EXCEPT !.amount_g      = JsonNum(@),
                     !.calories_kcal = JsonNum(@),
                     !.protein_g     = JsonNum(@),
                     !.amount_cups   = JsonNum(@)]]

\* s with x put after the last element whose _idx is not larger (a stable insertion)
RECURSIVE insertByIdx(_, _)
insertByIdx(s, x) ==
    IF Len(s) = 0 THEN <<x>>
    ELSE IF s[Len(s)].idx - x.idx <= 0 THEN Append(s, x)
    ELSE Append(insertByIdx(SubSeq(s, 1, Len(s) - 1), x), s[Len(s)])

RECURSIVE insertionSort(_)
insertionSort(arr) ==
    IF Len(arr) = 0 THEN <<>>
    ELSE insertByIdx(insertionSort(SubSeq(arr, 1, Len(arr) - 1)), arr[Len(arr)])

\* the list left in the order of the partition
sortByIdxSkipped(arr) == arr
\* arr.sort((a,b) => (a._idx||0) - (b._idx||0)): a stable sort on _idx
sortByIdx(arr) == insertionSort(arr)

\* arr.findIndex(P), given hit[k] = P(arr[k]): the first position 1..Len(arr) that
\* satisfies P, and 0 where JavaScript gives -1
findIndex(hit) ==
    IF \E k \in 1..Len(hit) : hit[k]
    THEN CHOOSE k \in 1..Len(hit) : hit[k] /\ \A j \in 1..(k - 1) : ~hit[j]
    ELSE 0

notProtein(i) == ~isProtein(i)
notNonScaling(i) == ~isNonScaling(i)

(***************************************************************************)
(* Protein stage                                                           *)
(***************************************************************************)
proteinFactor(proteinTarget_, protNow) ==
    MathMax(Zero, Div(proteinTarget_, MathMax(One, protNow)))

\* the body of protItems.forEach
scaleProteinItem(P, factor) ==
    Only({Only({[i EXCEPT !.amount_g      = newG,
                          !.protein_g     = Mul(OrZero(i.protein_g), f),
                          !.calories_kcal = Mul(OrZero(i.calories_kcal), f)] :
                   f \in {Div(newG, MathMax(One, OrZero(i.amount_g)))}}) :
             i \in {P}, newG \in {roundAmount(P.name, "g", Mul(OrZero(P.amount_g), factor))}})

\* a protein stage that applies the factor to every ingredient of the list
scaleProteinToTargetAll(ings, proteinTarget_) ==
    LET out       == cloneDeep(ings)
        protItems == SelectSeq(out, isProtein)
        protNow   == sumProtein(protItems)
    IN  IF Len(protItems) = 0 \/ ~isFinite(proteinTarget_) THEN out
        ELSE Only({sortByIdx([k \in 1..Len(out) |-> scaleProteinItem(out[k], factor)]) :
                      factor \in {proteinFactor(proteinTarget_, protNow)}})

scaleProteinToTarget(ings, proteinTarget_) ==
    LET out       == cloneDeep(ings)
        protItems == SelectSeq(out, isProtein)
        others    == SelectSeq(out, notProtein)
        protNow   == sumProtein(protItems)
    IN  IF Len(protItems) = 0 \/ ~isFinite(proteinTarget_) THEN out
        ELSE Only({sortByIdx([k \in 1..Len(protItems) |->
                                 scaleProteinItem(protItems[k], factor)] \o others) :
                      factor \in {proteinFactor(proteinTarget_, protNow)}})

(***************************************************************************)
(* Calorie stage                                                           *)
(***************************************************************************)
\* the residual target with the fixed calories left in
residualTargetKeepsFixed(caloriesTarget, fixedK) == MathMax(Zero, OrZero(caloriesTarget))
\* targetK
residualTarget(caloriesTarget, fixedK) == MathMax(Zero, Sub(OrZero(caloriesTarget), fixedK))

\* the body of cfItems.forEach
scaleCarbFatItem(i, factor) ==
    Only({Only({[it EXCEPT !.amount_g      = newG,
                           !.protein_g     = Mul(OrZero(it.protein_g), f),
                           !.calories_kcal = Mul(OrZero(it.calories_kcal), f),
                           !.amount_cups   = roundAmount(it.name, "cups", Div(newG, perCup))] :
                   f \in {Div(newG, MathMax(One, OrZero(it.amount_g)))},
                   perCup \in {guessGPerCup(it.name)}}) :
             it \in {i}, newG \in {roundAmount(i.name, "g", Mul(OrZero(i.amount_g), factor))}})

scaleCarbFatToCalories(ings, caloriesTarget) ==
    LET out        == cloneDeep(ings)
        nonScaling == SelectSeq(out, isNonScaling)
        cfItems    == SelectSeq(out, notNonScaling)
        fixedK     == sumCalories(nonScaling)
    IN  Only({IF Leq(kcalNow, Zero) \/ Leq(targetK, Zero) THEN out
              ELSE Only({sortByIdx([k \in 1..Len(cfItems) |->
                                       scaleCarbFatItem(cfItems[k], factor)] \o nonScaling) :
                            factor \in {Div(targetK, kcalNow)}}) :
                 kcalNow \in {sumCalories(cfItems)},
                 targetK \in {residualTarget(caloriesTarget, fixedK)}})

(***************************************************************************)
(* Finalization                                                            *)
(***************************************************************************)
\* diff
nudgeDiff(totals, caloriesTarget) == MathRound(Sub(caloriesTarget, OrZero(totals.calories_kcal)))

\* the threshold one calorie lower
exceedsToleranceOffByOne(diff) == Lt(R(4), MathAbs(diff))
\* Math.abs(diff) > 5
exceedsTolerance(diff) == Lt(R(5), MathAbs(diff))

carbFatCandidate(i) ==
    isCarbFat(i) /\ Lt(Zero, OrZero(i.calories_kcal)) /\ Truthy(OrZero(i.amount_g))
anyCandidate(i) ==
    Truthy(OrZero(i.amount_g)) /\ Lt(Zero, OrZero(i.calories_kcal))

\* idx: the ingredient that takes the correction, 0 when there is none
nudgeIndex(finalized) ==
    LET first  == findIndex([k \in 1..Len(finalized) |-> carbFatCandidate(finalized[k])])
        second == findIndex([k \in 1..Len(finalized) |-> anyCandidate(finalized[k])])
    IN  IF first # 0 THEN first ELSE second

\* calPerG
calPerG(it) == Div(OrZero(it.calories_kcal), MathMax(One, OrZero(it.amount_g)))

\* dg
nudgeDelta(it, diff) == Div(diff, calPerG(it))

\* the chosen ingredient after the correction
nudgeItem(it, diff) ==
    Only({Only({[i EXCEPT !.amount_g      = newG,
                          !.amount_cups   = roundAmount(i.name, "cups", Div(newG, perCup)),
                          !.calories_kcal = Mul(OrZero(i.calories_kcal), f),
                          !.protein_g     = Mul(OrZero(i.protein_g), f)] :
                   f \in {Div(newG, MathMax(One, OrZero(i.amount_g)))},
                   perCup \in {guessGPerCup(i.name)}}) :
             i \in {it},
             newG \in {roundAmount(it.name, "g", Add(OrZero(it.amount_g), nudgeDelta(it, diff)))}})

\* whether finalizeRecipe reaches the body of `if (calPerG > 0)`
nudgeApplies(finalized, caloriesTarget) ==
    /\ isFinite(caloriesTarget)
    /\ exceedsTolerance(nudgeDiff(computeTotals(finalized), caloriesTarget))
    /\ nudgeIndex(finalized) # 0
    /\ Lt(Zero, calPerG(finalized[nudgeIndex(finalized)]))

\* the ingredients and totals of the result (the recipe's identity fields pass through)
finalizeRecipe(ings, caloriesTarget) ==
    Only({Only({IF nudgeApplies(finalized, caloriesTarget)
                THEN Only({[ingredients |-> nudged, totals |-> computeTotals(nudged)] :
                              nudged \in {[k \in 1..Len(finalized) |->
                                             IF k = nudgeIndex(finalized)
                                             THEN nudgeItem(finalized[k],
                                                            nudgeDiff(totals, caloriesTarget))
                                             ELSE finalized[k]]}})
                ELSE [ingredients |-> finalized, totals |-> totals] :
                   totals \in {computeTotals(finalized)}}) :
             finalized \in {cloneDeep(ings)}})

(***************************************************************************)
(* Inputs                                                                  *)
(***************************************************************************)
MaxLen == 2
MaxProbeHalves == 330
MaxProbe48ths == 54

Ingredient(name, tags, g, kcal, prot) ==
    [name |-> name, tags |-> tags, amount_g |-> g, calories_kcal |-> kcal,
     protein_g |-> prot, amount_cups |-> Undefined]

\* the ingredient records a caller's list is drawn from
Pantry ==
    { Ingredient("Chicken breast", <<>>, R(150), R(240), R(30)),
      Ingredient("whey", <<>>, Rat(1, 2), R(2), Rat(2, 5)),
      Ingredient("lentils", <<"High Protein">>, R(100), R(116), R(9)),
      Ingredient("rice", <<>>, R(181), R(650), R(13)),
      Ingredient("olive oil", <<>>, R(14), R(120), Zero),
      Ingredient("potato", <<>>, R(250), R(200), R(5)),
      Ingredient("salt", <<>>, R(5), R(50), Undefined),
      Ingredient("spinach", <<"veg">>, Undefined, R(20), R(2)),
      Ingredient("Cottage cheese", <<>>, R(113), R(98), R(12)),
      Ingredient("Black Pepper", <<"Spice">>, Rat(1, 2), One, Zero) }

ProteinTargets == {R(30), R(45), NaN, PInf}
CalorieTargets == {Zero, R(300), Rat(1309, 2), R(655), R(660), NaN, PInf, NInf}

RawLists == UNION {[1..n -> Pantry] : n \in 0..MaxLen}

ProbeValues ==
    {Rat(k, 2) : k \in (-4)..MaxProbeHalves} \cup {Rat(k, 48) : k \in (-2)..MaxProbe48ths}
        \cup {NaN, PInf, NInf}
ProbeUnits == {"g", "cups", "tbsp"}

NoResult == [ingredients |-> <<>>,
             totals |-> [calories_kcal |-> Undefined, protein_g |-> Undefined]]

(***************************************************************************)
(* scaleRecipeForPaths_FixedProtein as a state machine                     *)
(***************************************************************************)
Init ==
    /\ pc = "start"
    /\ rawList \in RawLists
    /\ proteinTarget \in ProteinTargets
    /\ calorieTarget \in CalorieTargets
    /\ indexed = <<>>
    /\ step1 = <<>>
    /\ step2 = <<>>
    /\ fin = NoResult
    /\ rUnit = "g"
    /\ rValue = Zero
    /\ rResult = Undefined

\* rawList.map((i,idx) => ({ ...i, _idx: idx }))
addIdx(list) ==
    [k \in 1..Len(list) |->
        [name |-> list[k].name, tags |-> list[k].tags, amount_g |-> list[k].amount_g,
         calories_kcal |-> list[k].calories_kcal, protein_g |-> list[k].protein_g,
         amount_cups |-> list[k].amount_cups, idx |-> k - 1]]

Index ==
    /\ pc = "start"
    /\ indexed' = addIdx(rawList)
    /\ pc' = "indexed"
    /\ UNCHANGED <<rawList, proteinTarget, calorieTarget, step1, step2, fin,
                   rUnit, rValue, rResult>>

ScaleProtein ==
    /\ pc = "indexed"
    /\ step1' = scaleProteinToTarget(indexed, proteinTarget)
    /\ pc' = "step1"
    /\ UNCHANGED <<rawList, proteinTarget, calorieTarget, indexed, step2, fin,
                   rUnit, rValue, rResult>>

ScaleCarbFat ==
    /\ pc = "step1"
    /\ step2' = scaleCarbFatToCalories(step1, calorieTarget)
    /\ pc' = "step2"
    /\ UNCHANGED <<rawList, proteinTarget, calorieTarget, indexed, step1, fin,
                   rUnit, rValue, rResult>>

Finalize ==
    /\ pc = "step2"
    /\ fin' = finalizeRecipe(step2, calorieTarget)
    /\ pc' = "done"
    /\ UNCHANGED <<rawList, proteinTarget, calorieTarget, indexed, step1, step2,
                   rUnit, rValue, rResult>>

Next == Index \/ ScaleProtein \/ ScaleCarbFat \/ Finalize

Spec == Init /\ [][Next]_vars

(***************************************************************************)
(* roundAmount on its own: one call per behaviour                          *)
(***************************************************************************)
InitRound ==
    /\ pc = "probe"
    /\ rUnit \in ProbeUnits
    /\ rValue \in ProbeValues
    /\ rResult = Undefined
    /\ rawList = <<>>
    /\ proteinTarget = NaN
    /\ calorieTarget = NaN
    /\ indexed = <<>>
    /\ step1 = <<>>
    /\ step2 = <<>>
    /\ fin = NoResult

Round ==
    /\ pc = "probe"
    /\ rResult' = roundAmount("", rUnit, rValue)
    /\ pc' = "rounded"
    /\ UNCHANGED <<rawList, proteinTarget, calorieTarget, indexed, step1, step2, fin,
                   rUnit, rValue>>

NextRound == Round

SpecRound == InitRound /\ [][NextRound]_vars

(***************************************************************************)
(* Properties                                                              *)
(***************************************************************************)
\* what the rounding of a floating-point operation can add to the values compared below
Tolerance == Rat(1, 1000000)
\* x and y are equal up to Tolerance
Approx(x, y) == Leq(MathAbs(Sub(x, y)), Tolerance)

AfterStep1 == pc \in {"step1", "step2", "done"}
AfterStep2 == pc \in {"step2", "done"}

\* the k-th element of list is the k-th ingredient of the caller's list
SameIngredients(list) ==
    /\ Len(list) = Len(rawList)
    /\ \A k \in 1..Len(list) :
        /\ list[k].idx = k - 1
        /\ list[k].name = rawList[k].name
        /\ list[k].tags = rawList[k].tags

\* every ingredient of b has the amount, calories and protein it has in a
SameNutrition(a, b) ==
    /\ Len(a) = Len(b)
    /\ \A k \in 1..Len(a) :
        /\ b[k].amount_g = a[k].amount_g
        /\ b[k].calories_kcal = a[k].calories_kcal
        /\ b[k].protein_g = a[k].protein_g

\* C1: the list each stage returns, and the list scaleRecipeForPaths_FixedProtein
\* returns, has the length of the input list and holds at position k the k-th input
\* ingredient: nothing is reordered, dropped or duplicated.
C1_OrderPreserved ==
    /\ AfterStep1 => SameIngredients(step1)
    /\ AfterStep2 => SameIngredients(step2)
    /\ pc = "done" => SameIngredients(fin.ingredients)

\* C1 witness: both partitions put the second ingredient before the first (a
\* non-protein, non-scaling ingredient followed by a scalable protein), and both
\* stages rescaled.
C1_Witness ==
    /\ pc = "done"
    /\ Len(rawList) = 2
    /\ ~isProtein(rawList[1]) /\ isProtein(rawList[2])
    /\ isNonScaling(rawList[1]) /\ ~isNonScaling(rawList[2])
    /\ step1[2].amount_g # indexed[2].amount_g
    /\ step2[2].amount_g # step1[2].amount_g

\* C2: a non-finite protein target leaves every ingredient's amount, calories and
\* protein as they were in the protein stage's input, and a non-finite calorie target
\* leaves them as they were in the calorie stage's input.
C2_NonFiniteTargetIsNoOp ==
    /\ (AfterStep1 /\ ~isFinite(proteinTarget)) => SameNutrition(indexed, step1)
    /\ (AfterStep2 /\ ~isFinite(calorieTarget)) => SameNutrition(step1, step2)

\* some input ingredient has nonzero mass and positive calories
HasCalorieSource ==
    \E k \in 1..Len(rawList) :
        Truthy(OrZero(rawList[k].amount_g)) /\ Lt(Zero, OrZero(rawList[k].calories_kcal))

\* C3: for a finite positive calorie target and an input with an ingredient of nonzero
\* mass and positive calories, the returned total calories are within 5 of the target.
C3_CaloriesWithinTolerance ==
    (pc = "done" /\ isFinite(calorieTarget) /\ Lt(Zero, calorieTarget) /\ HasCalorieSource)
        => Leq(MathAbs(Sub(calorieTarget, fin.totals.calories_kcal)), R(5))

\* protein per gram of an input ingredient (0 for an ingredient without mass)
ProteinDensity(i) ==
    IF Lt(Zero, OrZero(i.amount_g)) THEN Div(OrZero(i.protein_g), OrZero(i.amount_g))
    ELSE Zero

\* the protein carried by the coarsest half rounding step (5 g) of every
\* protein-bearing ingredient of list[1..n]
RECURSIVE ProteinGranularity(_, _)
ProteinGranularity(list, n) ==
    IF n = 0 THEN Zero
    ELSE Add(ProteinGranularity(list, n - 1),
             IF isProtein(list[n]) THEN Mul(R(5), ProteinDensity(list[n])) ELSE Zero)

\* every protein-bearing input ingredient has a mass and a protein of at least 1, so
\* that the floors of 1 in the protein stage's divisors are not what decides the result
ProteinInputsAtLeastOne ==
    \A k \in 1..Len(rawList) :
        isProtein(rawList[k]) =>
            Leq(One, OrZero(rawList[k].amount_g)) /\ Leq(One, OrZero(rawList[k].protein_g))

\* C4: for a finite positive protein target and an input with a protein-bearing
\* ingredient, the returned total protein equals the protein target up to the
\* granularity of mass rounding (and the quarter gram of rounding the total to halves).
\* Stated on the inputs of ProteinInputsAtLeastOne with a finite positive calorie
\* target, where the protein stage alone does meet its target.
C4_ProteinTargetHit ==
    (/\ pc = "done"
     /\ isFinite(proteinTarget) /\ Lt(Zero, proteinTarget)
     /\ \E k \in 1..Len(rawList) : isProtein(rawList[k])
     /\ ProteinInputsAtLeastOne
     /\ isFinite(calorieTarget) /\ Lt(Zero, calorieTarget))
        => Leq(MathAbs(Sub(fin.totals.protein_g, proteinTarget)),
               Add(Rat(1, 4), ProteinGranularity(rawList, Len(rawList))))

\* half the rounding step of roundAmount's mass mode at the value v
HalfStep(v) ==
    IF Leq(v, R(20)) THEN Rat(1, 2) ELSE IF Leq(v, R(150)) THEN Rat(5, 2) ELSE R(5)

\* C5: after the protein stage on a list with exactly one protein-bearing ingredient
\* (mass m, protein p) and a finite positive target T, |protein' - T| is at most the
\* protein of half a rounding step at density p/m, the step being that of the band of
\* the scaled mass m*T/p; stated as m * |protein' - T| <= halfstep * p, up to Tolerance.
C5_SingleProteinWithinGranularity ==
    (/\ AfterStep1
     /\ isFinite(proteinTarget) /\ Lt(Zero, proteinTarget)
     /\ Cardinality({k \in 1..Len(indexed) : isProtein(indexed[k])}) = 1)
        => LET k == CHOOSE j \in 1..Len(indexed) : isProtein(indexed[j])
               m == OrZero(indexed[k].amount_g)
               p == OrZero(indexed[k].protein_g)
               h == IF Lt(Zero, p) THEN HalfStep(Div(Mul(m, proteinTarget), p)) ELSE R(5)
           IN  Leq(Mul(m, MathAbs(Sub(step1[k].protein_g, proteinTarget))),
                   Add(Mul(h, p), Tolerance))

\* calories of the non-scaling ingredients and of all the others
FixedTotal(list) == sumCalories(SelectSeq(list, isNonScaling))
ScalableTotal(list) == sumCalories(SelectSeq(list, notNonScaling))
\* max(0, calorieTarget - fixedTotal)
Residual(list, target) == MathMax(Zero, Sub(target, FixedTotal(list)))

\* C6: for a calorie target that is a number (not NaN): when the scalable calories and
\* the residual max(0, target - fixed) are positive, every scalable ingredient's new
\* mass is its old mass times residual / scalable, rounded in mass mode; when either is
\* <= 0 the stage returns its input unchanged; a non-scaling ingredient is never changed.
C6_CalorieBudget ==
    (AfterStep2 /\ calorieTarget # NaN) =>
        /\ Len(step2) = Len(step1)
        /\ \A k \in 1..Len(step1) : isNonScaling(step1[k]) => step2[k] = step1[k]
        /\ \A scalable \in {ScalableTotal(step1)}, residual \in {Residual(step1, calorieTarget)} :
               /\ (Leq(scalable, Zero) \/ Leq(residual, Zero)) => step2 = step1
               /\ (Lt(Zero, scalable) /\ Lt(Zero, residual))
                      => \A factor \in {Div(residual, scalable)} :
                             \A k \in 1..Len(step1) :
                                 ~isNonScaling(step1[k]) =>
                                     step2[k].amount_g =
                                         roundAmount("", "g",
                                                     Mul(OrZero(step1[k].amount_g), factor))

\* C6 witness: fixed 50, scalable 200, target 300: residual 250, factor 5/4, and the
\* scalable ingredient of 250 g becomes roundAmount(312.5) = 310 g.
C6_Witness ==
    /\ pc = "step2"
    /\ calorieTarget = R(300)
    /\ FixedTotal(step1) = R(50)
    /\ ScalableTotal(step1) = R(200)
    /\ Div(Residual(step1, calorieTarget), ScalableTotal(step1)) = Rat(5, 4)
    /\ \E k \in 1..Len(step1) :
           ~isNonScaling(step1[k]) /\ step1[k].amount_g = R(250) /\ step2[k].amount_g = R(310)

\* |target - total calories of the calorie stage's output|
CalorieGap == MathAbs(Sub(calorieTarget, computeTotals(step2).calories_kcal))

\* C7: when the total calories of the list given to finalizeRecipe differ from a finite
\* target by at most 5, the returned ingredients are that list unchanged (amount, cups,
\* calories, protein) and the returned totals are that list's totals.
C7_FinalizationTolerance ==
    (pc = "done" /\ isFinite(calorieTarget) /\ Leq(CalorieGap, R(5)))
        => /\ fin.ingredients = step2
           /\ fin.totals = computeTotals(step2)

\* C7 witness: the totals are off the target, by no more than 5, and an ingredient
\* that could take a correction exists.
C7_Witness ==
    /\ pc = "done"
    /\ isFinite(calorieTarget)
    /\ Lt(Zero, CalorieGap) /\ Leq(CalorieGap, R(5))
    /\ nudgeIndex(step2) # 0

\* C8: whenever finalizeRecipe applies a nudge: with the totals below the target by
\* more than 5 the delta is positive and the chosen ingredient's new mass is not
\* smaller than its old mass; with the totals above by more than 5 the delta is
\* negative and the new mass is not larger.
C8_NudgeDirection ==
    (pc = "done" /\ nudgeApplies(step2, calorieTarget)) =>
        LET k     == nudgeIndex(step2)
            tot   == computeTotals(step2).calories_kcal
            dg    == nudgeDelta(step2[k], nudgeDiff(computeTotals(step2), calorieTarget))
            oldG  == OrZero(step2[k].amount_g)
            newG  == fin.ingredients[k].amount_g
        IN  /\ Lt(R(5), Sub(calorieTarget, tot)) => (Lt(Zero, dg) /\ Leq(oldG, newG))
            /\ Lt(R(5), Sub(tot, calorieTarget)) => (Lt(dg, Zero) /\ Leq(newG, oldG))

\* between the lists a and b, every ingredient whose mass changed from old to new has
\* calories and protein multiplied by new/old: b.x * old = a.x * new, up to Tolerance
Proportional(a, b) ==
    \A k \in 1..Len(a) :
        LET oldG == OrZero(a[k].amount_g)
            newG == OrZero(b[k].amount_g)
        IN  newG # oldG =>
                /\ Approx(Mul(OrZero(b[k].calories_kcal), oldG),
                          Mul(OrZero(a[k].calories_kcal), newG))
                /\ Approx(Mul(OrZero(b[k].protein_g), oldG),
                          Mul(OrZero(a[k].protein_g), newG))

\* C9: each stage that changes an ingredient's mass from old to new multiplies its
\* calories and protein by new/old, for every old mass.
C9_ProportionalScaling ==
    /\ AfterStep1 => Proportional(indexed, step1)
    /\ AfterStep2 => Proportional(step1, step2)
    /\ pc = "done" => Proportional(step2, fin.ingredients)

\* the band of roundAmount's mass mode a value falls in
Band(v) == IF Leq(v, R(20)) THEN 1 ELSE IF Leq(v, R(150)) THEN 2 ELSE 3

CupFractions == {Zero, Rat(1, 8), Rat(1, 6), Rat(1, 4), Rat(1, 3), Rat(1, 2), Rat(2, 3),
                 Rat(3, 4), One}

\* C10: in mass mode roundAmount gives 0 for a negative or non-finite input and is
\* monotonic non-decreasing within each band; in cup mode its result is a member of
\* the fixed fraction set, for a finite input the member nearest the input and the
\* earliest (smallest) member on an exact tie.
C10_RoundingMonotonic ==
    pc = "rounded" =>
        /\ rUnit = "g" =>
            /\ (~isFinite(rValue) \/ Lt(rValue, Zero)) => rResult = Zero
            /\ isFinite(rValue) =>
                \A y \in ProbeValues :
                    (isFinite(y) /\ Band(y) = Band(rValue) /\ Leq(rValue, y))
                        => Leq(rResult, roundAmount("", "g", y))
        /\ rUnit = "cups" =>
            /\ rResult \in CupFractions
            /\ isFinite(rValue) =>
                \A m \in CupFractions :
                    /\ Leq(MathAbs(Sub(rResult, rValue)), MathAbs(Sub(m, rValue)))
                    /\ MathAbs(Sub(m, rValue)) = MathAbs(Sub(rResult, rValue))
                           => Leq(rResult, m)

\* C10 witness: 7/8 cup is exactly between 3/4 and 1 and is rounded to 3/4.
C10_Witness ==
    /\ pc = "rounded"
    /\ rUnit = "cups"
    /\ rValue = Rat(7, 8)
    /\ rResult = Rat(3, 4)

\* the ingredient at position k is not classified protein-bearing
IsOther(k) == ~isProtein(indexed[k])

\* C11: scaleProteinToTarget returns a list as long as its input in which every
\* ingredient not classified protein-bearing has the amount, calories, protein and
\* cup amount it had in the input, for every protein target; a list with no
\* protein-bearing ingredient is returned equal to the input, so the calorie stage
\* receives the quantities of the caller's list.
C11_ProteinStageFrame ==
    AfterStep1 =>
        /\ Len(step1) = Len(indexed)
        /\ \A k \in 1..Len(indexed) : IsOther(k) => step1[k] = indexed[k]
        /\ (\A k \in 1..Len(indexed) : IsOther(k)) =>
               /\ step1 = indexed
               /\ SameNutrition(rawList, step1)

\* C11 witness: the protein stage has changed the mass, calories and protein of a
\* protein-bearing ingredient of a list that also holds an ingredient that is not
\* protein-bearing and has a mass, calories and protein of its own.
C11_Witness ==
    /\ pc = "step1"
    /\ Len(indexed) = 2
    /\ isProtein(indexed[1]) /\ IsOther(2)
    /\ isFinite(indexed[2].amount_g) /\ Lt(Zero, indexed[2].amount_g)
    /\ isFinite(indexed[2].protein_g) /\ Lt(Zero, indexed[2].protein_g)
    /\ Lt(Zero, indexed[2].calories_kcal)
    /\ step1[1].amount_g # indexed[1].amount_g
    /\ step1[1].protein_g # indexed[1].protein_g
    /\ step1[2] = indexed[2]

====
